---------------------------- MODULE Spec2Model ----------------------------
(***************************************************************************)
(* A model of mixramp (src/mixramp.c): main() opens an audio file, prints  *)
(* MIXRAMP_REF, feeds the track to the ReplayGain analysis in chunks of    *)
(* chunkSeconds, records in analyzeChunk() the first and the last chunk    *)
(* that reaches each level of the dB ladder, and prints both tables in     *)
(* dumpRamps().                                                            *)
(*                                                                         *)
(* Units.  Loudness values are integers in thousandths of a dB (mdB), so   *)
(* that the two-decimal formatting of printf("%.2f") is a real rounding.   *)
(* Times are exact rationals kept as integers in "ticks" of                *)
(* 1 / (10 * sampleRate) seconds: j * chunkSamples / sampleRate seconds is *)
(* 10 * j * chunkSamples ticks and frameCount / sampleRate + 0.10 seconds  *)
(* is 10 * frameCount + sampleRate ticks.  Rounding errors of the double   *)
(* arithmetic are not modelled.                                            *)
(*                                                                         *)
(* The libraries (libaudiofile, gain_analysis) are the environment: each   *)
(* of their results is an input drawn from a small set.                    *)
(***************************************************************************)
EXTENDS Integers, Sequences, FiniteSets

VARIABLES
    pc,            \* position of main()
    channelCount,  \* main: int channelCount
    sampleRate,    \* main: double sampleRate (Hz)
    frameCount,    \* main: int64_t frameCount
    length,        \* main: double length (ticks)
    chunkSamples,  \* main: size_t chunkSamples
    chunkCount,    \* main: int chunkCount
    framesLeft,    \* frames the decoder has not delivered yet
    start_db, start_time, end_db, end_time,   \* the four static tables
    stdout,        \* the lines written to standard output, in order
    stderr,        \* the diagnostics written to standard error, in order
    exitCode,      \* the process exit status, NoExit while running
    chunks         \* history: <<chunkTime, vol>> of every chunk that reached the tables

vars == <<pc, channelCount, sampleRate, frameCount, length, chunkSamples,
          chunkCount, framesLeft, start_db, start_time, end_db, end_time,
          stdout, stderr, exitCode, chunks>>

-----------------------------------------------------------------------------
(* Bounds and input sets *)

\* Largest number of full chunks of a track of the general specification.
MaxChunks == 3

\* Sample rates of the input files (Hz).  11025 Hz makes chunkSamples round down.
Rates == {44100, 11025}

\* Channel counts libaudiofile may report.
ChannelCounts == {1, 2, 3}

\* argc values.
ArgCounts == {1, 2, 3}

\* Chunk loudness values (mdB): below the ladder, on its lowest level, between
\* levels, just below and just above the 3 dB level, on the highest level.
Vols == {-95000, -90000, -50000, 2996, 3004, 6000}

\* errno after a failed afOpenFile().  libaudiofile reports through its own
\* error handler and does not promise to set errno; errno is 0 at program
\* start and no library function resets it, so a failure that involves no
\* failing system call (an unrecognised file format) leaves 0.
OpenErrnos == {0, 2, 13}

\* errno after a failed malloc() (ENOMEM).
AllocErrnos == {12}

-----------------------------------------------------------------------------
(* Constants of the program *)

DBS == <<-90000, -60000, -40000, -30000, -24000, -21000, -18000, -15000,
         -12000, -9000, -6000, -3000, 0, 3000, 6000>>

points == Len(DBS)

Idx == 0 .. (points - 1)

db(i) == DBS[i + 1]

\* NAN in a time table.  Every real time of the model is >= 0.
NAN == -1

isnan(x) == x = NAN

\* The == of two doubles that may be NAN: false when either is.
FloatEq(a, b) == ~isnan(a) /\ ~isnan(b) /\ a = b

TIMES == [i \in Idx |-> NAN]

\* GAIN_NOT_ENOUGH_SAMPLES of gain_analysis.h, as the int it is compared to.
GAIN_NOT_ENOUGH_SAMPLES == -24601

\* The (int) cast of a double given in thousandths: truncation towards zero.
IntCast(g) == IF g >= 0 THEN g \div 1000 ELSE -((-g) \div 1000)

\* What GetTitleGain() may return (mdB): the negated loudness of the chunk,
\* or GAIN_NOT_ENOUGH_SAMPLES.
Gains == {-v : v \in Vols} \cup {GAIN_NOT_ENOUGH_SAMPLES * 1000}

NoExit == -1

REF_LINE == [text |-> "MIXRAMP_REF=89.00", rows |-> <<>>]

-----------------------------------------------------------------------------
(* Formatting *)

\* num / den (den > 0) rounded to the nearest integer, ties to even: what
\* printf's %.2f does to a value given in hundredths as num / den.
Round(num, den) ==
    LET q == num \div den
        r == num % den
    IN  IF 2 * r < den THEN q
        ELSE IF 2 * r > den THEN q + 1
        ELSE IF q % 2 = 0 THEN q ELSE q + 1

\* "%.2f" of a loudness (mdB): hundredths of a dB.
FormatDb(d) == Round(d, 10)

\* "%.2f" of a time (ticks at rate r): hundredths of a second.
FormatTime(t, r) == Round(10 * t, r)

FormatRows(rows, r) ==
    [n \in 1 .. Len(rows) |-> <<FormatDb(rows[n][1]), FormatTime(rows[n][2], r)>>]

-----------------------------------------------------------------------------
(* analyzeChunk: the two table updates *)

\* A variant of StartUpdate without the isnan test: set rows are rewritten.
StartUpdate_Rewrite(sdb, stime, vol, chunkTime) ==
    [db   |-> [i \in Idx |-> IF vol >= db(i) THEN vol ELSE sdb[i]],
     time |-> [i \in Idx |-> IF vol >= db(i) THEN chunkTime ELSE stime[i]]]

\* A variant of StartUpdate that compares with > instead of >=.
StartUpdate_Strict(sdb, stime, vol, chunkTime) ==
    [db   |-> [i \in Idx |-> IF isnan(stime[i]) /\ vol > db(i)
                             THEN vol ELSE sdb[i]],
     time |-> [i \in Idx |-> IF isnan(stime[i]) /\ vol > db(i)
                             THEN chunkTime ELSE stime[i]]]

\* Lines 63-69: row i is written when it is unset and vol reaches db[i].
StartUpdate(sdb, stime, vol, chunkTime) ==
    [db   |-> [i \in Idx |-> IF isnan(stime[i]) /\ vol >= db(i)
                             THEN vol ELSE sdb[i]],
     time |-> [i \in Idx |-> IF isnan(stime[i]) /\ vol >= db(i)
                             THEN chunkTime ELSE stime[i]]]

\* A variant of EndUpdate that writes a row only while it is unset.
EndUpdate_FirstOnly(edb, etime, vol, chunkTime, len) ==
    [db   |-> [i \in Idx |-> IF isnan(etime[i]) /\ vol >= db(i)
                             THEN vol ELSE edb[i]],
     time |-> [i \in Idx |-> IF isnan(etime[i]) /\ vol >= db(i)
                             THEN len - chunkTime ELSE etime[i]]]

\* A variant of EndUpdate that measures from the unpadded end of the track.
EndUpdate_Unpadded(edb, etime, vol, chunkTime, len) ==
    [db   |-> [i \in Idx |-> IF vol >= db(i) THEN vol ELSE edb[i]],
     time |-> [i \in Idx |-> IF vol >= db(i)
                             THEN (len - sampleRate) - chunkTime ELSE etime[i]]]

\* Lines 71-77: row i is written whenever vol reaches db[i].
EndUpdate(edb, etime, vol, chunkTime, len) ==
    [db   |-> [i \in Idx |-> IF vol >= db(i) THEN vol ELSE edb[i]],
     time |-> [i \in Idx |-> IF vol >= db(i) THEN len - chunkTime ELSE etime[i]]]

-----------------------------------------------------------------------------
(* dumpRamps: the rows one loop passes to printf *)

\* A variant of DumpFrom without the isnan test: unset rows are printed too.
RECURSIVE DumpFrom_NoNanTest(_, _, _, _, _)
DumpFrom_NoNanTest(dbs, times, i, last_db, last_time) ==
    IF i >= points THEN <<>>
    ELSE IF FloatEq(last_time, times[i]) /\ last_db = dbs[i]
         THEN DumpFrom_NoNanTest(dbs, times, i + 1, last_db, last_time)
         ELSE <<<<dbs[i], times[i]>>>>
              \o DumpFrom_NoNanTest(dbs, times, i + 1, dbs[i], times[i])

\* A variant of DumpFrom without the duplicate test: every set row is printed.
RECURSIVE DumpFrom_NoDedup(_, _, _, _, _)
DumpFrom_NoDedup(dbs, times, i, last_db, last_time) ==
    IF i >= points THEN <<>>
    ELSE IF isnan(times[i])
         THEN DumpFrom_NoDedup(dbs, times, i + 1, last_db, last_time)
         ELSE <<<<dbs[i], times[i]>>>>
              \o DumpFrom_NoDedup(dbs, times, i + 1, dbs[i], times[i])

RECURSIVE DumpFrom(_, _, _, _, _)
DumpFrom(dbs, times, i, last_db, last_time) ==
    IF i >= points THEN <<>>
    ELSE IF (FloatEq(last_time, times[i]) /\ last_db = dbs[i]) \/ isnan(times[i])
         THEN DumpFrom(dbs, times, i + 1, last_db, last_time)
         ELSE <<<<dbs[i], times[i]>>>> \o DumpFrom(dbs, times, i + 1, dbs[i], times[i])

\* Lines 84-94 and 97-106: last_db = 0, last_time = NAN, i from 0.
DumpRows(dbs, times) == DumpFrom(dbs, times, 0, 0, NAN)

-----------------------------------------------------------------------------
(* The state after the static initialisers, before main() runs *)

Init ==
    /\ pc = "usage"
    /\ channelCount = 0
    /\ sampleRate = 0
    /\ frameCount = 0
    /\ length = 0
    /\ chunkSamples = 0
    /\ chunkCount = 0
    /\ framesLeft = 0
    /\ start_db = [i \in Idx |-> db(i)]
    /\ end_db = [i \in Idx |-> db(i)]
    /\ start_time = TIMES
    /\ end_time = TIMES
    /\ stdout = <<>>
    /\ stderr = <<>>
    /\ exitCode = NoExit
    /\ chunks = <<>>

tables == <<start_db, start_time, end_db, end_time>>
metadata == <<channelCount, sampleRate, frameCount, length, framesLeft>>

\* exit(code), or return code from main.
Exit(code) ==
    /\ pc' = "exited"
    /\ exitCode' = code

-----------------------------------------------------------------------------
(* main *)

\* Lines 114-117: wrong argument count.
Main_usageError ==
    /\ pc = "usage"
    /\ \E argc \in ArgCounts : 2 # argc
    /\ Exit(1)
    /\ stderr' = Append(stderr, "Usage")
    /\ UNCHANGED <<metadata, chunkSamples, chunkCount, tables, stdout, chunks>>

Main_usageOk ==
    /\ pc = "usage"
    /\ \E argc \in ArgCounts : 2 = argc
    /\ pc' = "open"
    /\ UNCHANGED <<metadata, chunkSamples, chunkCount, tables, stdout, stderr, exitCode, chunks>>

\* Lines 121-125: afOpenFile fails; return errno.
Main_openError ==
    /\ pc = "open"
    /\ \E e \in OpenErrnos : Exit(e)
    /\ stderr' = Append(stderr, "perror")
    /\ UNCHANGED <<metadata, chunkSamples, chunkCount, tables, stdout, chunks>>

Main_openOk ==
    /\ pc = "open"
    /\ pc' = "metadata"
    /\ UNCHANGED <<metadata, chunkSamples, chunkCount, tables, stdout, stderr, exitCode, chunks>>

\* The frame counts of the tracks at rate r: up to MaxChunks full chunks, then
\* nothing or a partial chunk of chunkSamples - 1 frames.
FrameCounts(r) ==
    {c * (r \div 10) + rem : c \in 0 .. MaxChunks, rem \in {0, (r \div 10) - 1}}

\* Lines 128-136: the channel count is neither 1 nor 2.
Main_channelsError ==
    /\ pc = "metadata"
    /\ \E r \in Rates : \E n \in FrameCounts(r) :
       \E c \in ChannelCounts :
          /\ (1 # c) /\ (2 # c)
          /\ frameCount' = n
          /\ framesLeft' = n
          /\ channelCount' = c
    /\ Exit(1)
    /\ stderr' = Append(stderr, "channels not supported")
    /\ UNCHANGED <<sampleRate, length, chunkSamples, chunkCount, tables, stdout, chunks>>

\* Lines 128-143 for a track of n frames at rate r with c channels.
GetMetadata(n, c, r) ==
    /\ pc = "metadata"
    /\ (1 = c) \/ (2 = c)
    /\ frameCount' = n
    /\ framesLeft' = n
    /\ channelCount' = c
    /\ sampleRate' = r
    /\ length' = 10 * n + r
    /\ pc' = "initgain"
    /\ UNCHANGED <<chunkSamples, chunkCount, tables, stdout, stderr, exitCode, chunks>>

Main_metadata ==
    \E r \in Rates : \E n \in FrameCounts(r) : \E c \in ChannelCounts :
        GetMetadata(n, c, r)

\* Lines 146-149: InitGainAnalysis rejects the rate.
Main_rateError ==
    /\ pc = "initgain"
    /\ Exit(1)
    /\ stderr' = Append(stderr, "Unsupported sample frequency")
    /\ UNCHANGED <<metadata, chunkSamples, chunkCount, tables, stdout, chunks>>

Main_initGainOk ==
    /\ pc = "initgain"
    /\ pc' = "alloc"
    /\ UNCHANGED <<metadata, chunkSamples, chunkCount, tables, stdout, stderr, exitCode, chunks>>

\* Lines 163-182: chunkSamples = chunkSeconds * sampleRate, truncated; a malloc fails.
Main_allocError ==
    /\ pc = "alloc"
    /\ chunkSamples' = sampleRate \div 10
    /\ \E e \in AllocErrnos : Exit(e)
    /\ stderr' = Append(stderr, "perror")
    /\ UNCHANGED <<metadata, chunkCount, tables, stdout, chunks>>

Main_allocOk ==
    /\ pc = "alloc"
    /\ chunkSamples' = sampleRate \div 10
    /\ pc' = "ref"
    /\ UNCHANGED <<metadata, chunkCount, tables, stdout, stderr, exitCode, chunks>>

\* Lines 185-189.
Main_putsRef ==
    /\ pc = "ref"
    /\ stdout' = Append(stdout, REF_LINE)
    /\ chunkCount' = 0
    /\ pc' = "loop"
    /\ UNCHANGED <<metadata, chunkSamples, tables, stderr, exitCode, chunks>>

\* A variant of ReadFrames that reports a partial chunk as a full one.
ReadFrames_Padded(want) == IF framesLeft > 0 THEN want ELSE 0

\* afReadFrames: the frames delivered when `want` are asked for, the rest of
\* the track when fewer are left.
ReadFrames(want) == IF framesLeft >= want THEN want ELSE framesLeft

\* Lines 191-192 and 41-45: a full chunk is read and AnalyzeSamples fails.
Main_analyzeError ==
    /\ pc = "loop"
    /\ chunkSamples = ReadFrames(chunkSamples)
    /\ framesLeft' = framesLeft - chunkSamples
    /\ Exit(1)
    /\ stderr' = Append(stderr, "Error in AnalyzeSamples")
    /\ UNCHANGED <<channelCount, sampleRate, frameCount, length, chunkSamples,
                   chunkCount, tables, stdout, chunks>>

\* Lines 191-192 and 41-56: GetTitleGain returns GAIN_NOT_ENOUGH_SAMPLES.
Main_notEnoughSamples ==
    /\ pc = "loop"
    /\ chunkSamples = ReadFrames(chunkSamples)
    /\ framesLeft' = framesLeft - chunkSamples
    /\ \E gain \in Gains : GAIN_NOT_ENOUGH_SAMPLES = IntCast(gain)
    /\ Exit(1)
    /\ stderr' = Append(stderr, "chunkSamples too small")
    /\ UNCHANGED <<channelCount, sampleRate, frameCount, length, chunkSamples,
                   chunkCount, tables, stdout, chunks>>

\* Lines 58-77 of analyzeChunk for a chunk with this gain.
AnalyzeChunk(gain, chunkTime, len) ==
    LET vol == -gain
        s   == StartUpdate(start_db, start_time, vol, chunkTime)
        e   == EndUpdate(end_db, end_time, vol, chunkTime, len)
    IN  /\ start_db' = s.db
        /\ start_time' = s.time
        /\ end_db' = e.db
        /\ end_time' = e.time
        /\ chunks' = Append(chunks, <<chunkTime, vol>>)

\* chunkTime of line 208, in ticks.
ChunkTime(count, samples) == 10 * count * samples

\* Lines 191-213: one pass of the loop for a full chunk.
ProcessChunk(gain) ==
    /\ pc = "loop"
    /\ chunkSamples = ReadFrames(chunkSamples)
    /\ framesLeft' = framesLeft - chunkSamples
    /\ GAIN_NOT_ENOUGH_SAMPLES # IntCast(gain)
    /\ AnalyzeChunk(gain, ChunkTime(chunkCount, chunkSamples), length)
    /\ chunkCount' = chunkCount + 1
    /\ UNCHANGED <<pc, channelCount, sampleRate, frameCount, length, chunkSamples,
                   stdout, stderr, exitCode>>

Main_chunk == \E gain \in Gains : ProcessChunk(gain)

\* Lines 191-192: the read returns fewer than chunkSamples frames; the loop ends.
Main_shortRead ==
    /\ pc = "loop"
    /\ chunkSamples # ReadFrames(chunkSamples)
    /\ framesLeft' = framesLeft - ReadFrames(chunkSamples)
    /\ pc' = "dump"
    /\ UNCHANGED <<channelCount, sampleRate, frameCount, length, chunkSamples,
                   chunkCount, tables, stdout, stderr, exitCode, chunks>>

\* The two lines dumpRamps prints.
StartLine == [text |-> "MIXRAMP_START=",
              rows |-> FormatRows(DumpRows(start_db, start_time), sampleRate)]
EndLine == [text |-> "MIXRAMP_END=",
            rows |-> FormatRows(DumpRows(end_db, end_time), sampleRate)]

\* A variant of Main_dumpRamps that prints MIXRAMP_END first.
Main_dumpRamps_EndFirst ==
    /\ pc = "dump"
    /\ stdout' = stdout \o <<EndLine, StartLine>>
    /\ pc' = "exit"
    /\ UNCHANGED <<metadata, chunkSamples, chunkCount, tables, stderr, exitCode, chunks>>

\* Line 216 (lines 82-108).
Main_dumpRamps ==
    /\ pc = "dump"
    /\ stdout' = stdout \o <<StartLine, EndLine>>
    /\ pc' = "exit"
    /\ UNCHANGED <<metadata, chunkSamples, chunkCount, tables, stderr, exitCode, chunks>>

\* Line 219.
Main_exit ==
    /\ pc = "exit"
    /\ pc' = "done"
    /\ exitCode' = 0
    /\ UNCHANGED <<metadata, chunkSamples, chunkCount, tables, stdout, stderr, chunks>>

Next ==
    \/ Main_usageError
    \/ Main_usageOk
    \/ Main_openError
    \/ Main_openOk
    \/ Main_channelsError
    \/ Main_metadata
    \/ Main_rateError
    \/ Main_initGainOk
    \/ Main_allocError
    \/ Main_allocOk
    \/ Main_putsRef
    \/ Main_analyzeError
    \/ Main_notEnoughSamples
    \/ Main_chunk
    \/ Main_shortRead
    \/ Main_dumpRamps
    \/ Main_exit

Spec == Init /\ [][Next]_vars

-----------------------------------------------------------------------------
(* The tracks of the end-to-end scenarios: 1 s and 10 s long, some chunks   *)
(* below the ladder followed by chunks of one loudness on or above its top. *)

ScenarioSeconds == {1, 10}

ScenarioVols == {-95000, 6000, 7250}

ScenarioGains == {-v : v \in ScenarioVols}

Scenario_metadata ==
    \E r \in Rates : \E secs \in ScenarioSeconds : \E c \in ChannelCounts :
        GetMetadata(secs * r, c, r)

\* The chunk is below the ladder and so is every chunk before it, or it is on
\* or above the top of the ladder and as loud as the loud chunk before it.
ScenarioChunk(vol) ==
    IF vol < db(0)
    THEN \A n \in 1 .. Len(chunks) : chunks[n][2] < db(0)
    ELSE /\ vol >= db(points - 1)
         /\ \A n \in 1 .. Len(chunks) : chunks[n][2] >= db(0) => chunks[n][2] = vol

Scenario_chunk ==
    \E gain \in ScenarioGains : ScenarioChunk(-gain) /\ ProcessChunk(gain)

NextBC ==
    \/ Main_usageError
    \/ Main_usageOk
    \/ Main_openError
    \/ Main_openOk
    \/ Main_channelsError
    \/ Scenario_metadata
    \/ Main_rateError
    \/ Main_initGainOk
    \/ Main_allocError
    \/ Main_allocOk
    \/ Main_putsRef
    \/ Main_analyzeError
    \/ Main_notEnoughSamples
    \/ Scenario_chunk
    \/ Main_shortRead
    \/ Main_dumpRamps
    \/ Main_exit

SpecBC == Init /\ [][NextBC]_vars

-----------------------------------------------------------------------------
(* Properties *)

Min(S) == CHOOSE x \in S : \A y \in S : x <= y
Max(S) == CHOOSE x \in S : \A y \in S : x >= y

\* The processed chunks (1-based positions in the history) whose loudness
\* reaches level i.
Hits(i) == {n \in 1 .. Len(chunks) : chunks[n][2] >= db(i)}

\* dumpRamps has run.
Dumped == Len(stdout) = 3

\* The rows dumpRamps passes to printf for each table.
StartRows == DumpRows(start_db, start_time)
EndRows == DumpRows(end_db, end_time)

\* d rises strictly and t does not fall along the rows.
Rising(rows) ==
    \A a, b \in 1 .. Len(rows) :
        a < b => rows[b][1] > rows[a][1] /\ rows[b][2] >= rows[a][2]

\* d rises strictly and t does not rise along the rows.
RisingFalling(rows) ==
    \A a, b \in 1 .. Len(rows) :
        a < b => rows[b][1] > rows[a][1] /\ rows[b][2] <= rows[a][2]

\* Neither d nor t falls along the rows, and no two rows are equal.
NotFalling(rows) ==
    \A a, b \in 1 .. Len(rows) :
        a < b => /\ rows[b][1] >= rows[a][1]
                 /\ rows[b][2] >= rows[a][2]
                 /\ rows[b] # rows[a]

\* C1 as claimed: of two rows printed in MIXRAMP_END, the later one has the
\* strictly larger dB value and a time that is not larger (d2 > d1, t2 <= t1).
C1_EndMonotoneAsClaimed == Dumped => RisingFalling(stdout[3].rows)

\* C1 amended: of two rows printed in MIXRAMP_END, the later one has a dB value
\* and a time that are not smaller (d2 >= d1, t2 >= t1) and the two rows
\* differ; of the values passed to printf, before the rounding to two
\* decimals, d2 > d1 and t2 >= t1.  Each time is length - chunkTime of the
\* last chunk that reached the row's level, and a higher level is last reached
\* no later than a lower one.
C1_EndMonotone ==
    Dumped => /\ stdout[3].rows = FormatRows(EndRows, sampleRate)
              /\ NotFalling(stdout[3].rows)
              /\ Rising(EndRows)

\* MIXRAMP_END was printed with two rows or more, after rows were suppressed
\* as duplicates, and the time of a later row is larger.
C1_Witness ==
    /\ Dumped
    /\ Len(stdout[3].rows) < Cardinality({i \in Idx : ~isnan(end_time[i])})
    /\ \E a, b \in 1 .. Len(stdout[3].rows) :
          a < b /\ stdout[3].rows[b][2] > stdout[3].rows[a][2]

\* C3 as claimed: of two rows printed in MIXRAMP_START, the later one has the
\* strictly larger dB value and a time that is not smaller (d2 > d1, t2 >= t1).
C3_StartMonotoneAsClaimed == Dumped => Rising(stdout[2].rows)

\* C3 amended: of two rows printed in MIXRAMP_START, the later one has a dB
\* value and a time that are not smaller (d2 >= d1, t2 >= t1) and the two rows
\* differ; of the values passed to printf, before the rounding to two
\* decimals, d2 > d1 and t2 >= t1.
C3_StartMonotone ==
    Dumped => /\ stdout[2].rows = FormatRows(StartRows, sampleRate)
              /\ NotFalling(stdout[2].rows)
              /\ Rising(StartRows)

\* MIXRAMP_START was printed after rows were suppressed as duplicates, with
\* two rows whose dB values differ before the rounding and not after it.
C3_Witness ==
    /\ Dumped
    /\ Len(stdout[2].rows) < Cardinality({i \in Idx : ~isnan(start_time[i])})
    /\ \E a, b \in 1 .. Len(stdout[2].rows) :
          a < b /\ stdout[2].rows[b][1] = stdout[2].rows[a][1]

C4_FirstOccurrence ==
    \A i \in Idx :
        /\ ~isnan(start_time[i]) <=> Hits(i) # {}
        /\ Hits(i) # {} =>
              LET n == Min(Hits(i))
              IN  /\ start_time[i] = chunks[n][1]
                  /\ start_db[i] = chunks[n][2]
                  /\ start_db[i] >= db(i)

C4_WriteOnce ==
    \A i \in Idx :
        ~isnan(start_time[i]) =>
            start_db'[i] = start_db[i] /\ start_time'[i] = start_time[i]

\* C4: after any number of chunks, start row i is set iff some processed chunk
\* reached db[i]; it then holds the loudness and the time of the first such
\* chunk, its loudness is >= db[i], and no step changes a row that is set.
C4_StartRows == [] C4_FirstOccurrence /\ [][C4_WriteOnce]_vars

\* A level was reached by two chunks of different loudness at different times.
C4_Witness ==
    \E i \in Idx :
        /\ Cardinality(Hits(i)) >= 2
        /\ chunks[Max(Hits(i))][2] # chunks[Min(Hits(i))][2]
        /\ isnan(start_time[points - 1])

C5_LastOccurrence ==
    \A i \in Idx :
        /\ ~isnan(end_time[i]) <=> Hits(i) # {}
        /\ Hits(i) # {} =>
              LET n == Max(Hits(i))
              IN  /\ end_db[i] = chunks[n][2]
                  /\ chunks[n][1] = 10 * (n - 1) * chunkSamples
                  /\ end_time[i] = (10 * frameCount + sampleRate) - chunks[n][1]

C5_Overwrite ==
    Len(chunks') = Len(chunks) + 1 =>
        LET c == chunks'[Len(chunks')]
        IN  \A i \in Idx :
              IF c[2] >= db(i)
              THEN end_db'[i] = c[2] /\ end_time'[i] = length - c[1]
              ELSE end_db'[i] = end_db[i] /\ end_time'[i] = end_time[i]

\* C5: after any number of chunks, end row i is set iff some processed chunk
\* reached db[i]; it then holds (v, T - t) of the last such chunk, with
\* t = j * k / r and T = n / r + 0.10; a chunk that reaches db[i] overwrites
\* row i and a chunk that does not leaves it unchanged.
C5_EndRows == [] C5_LastOccurrence /\ [][C5_Overwrite]_vars

\* A level was reached by two chunks of different loudness, and a later chunk
\* that did not reach it left the row alone.
C5_Witness ==
    \E i \in Idx :
        /\ Cardinality(Hits(i)) >= 2
        /\ chunks[Max(Hits(i))][2] # chunks[Min(Hits(i))][2]
        /\ Max(Hits(i)) < Len(chunks)

\* C10: the set rows of each table are a prefix of the ladder, the two tables
\* have the same set rows, and the two printed bodies are both empty or both
\* non-empty.
C10_TableShape ==
    /\ \A i \in Idx : isnan(start_time[i]) <=> isnan(end_time[i])
    /\ \A i, j \in Idx : j < i /\ ~isnan(start_time[i]) => ~isnan(start_time[j])
    /\ \A i, j \in Idx : j < i /\ ~isnan(end_time[i]) => ~isnan(end_time[j])
    /\ Dumped => (stdout[2].rows = <<>> <=> stdout[3].rows = <<>>)

\* Both bodies were printed from tables with some rows set and some unset,
\* one of them set by a chunk exactly on its level.
C10_Witness ==
    /\ Dumped
    /\ stdout[2].rows # <<>>
    /\ ~isnan(start_time[0])
    /\ isnan(end_time[points - 1])
    /\ \E i \in Idx : start_db[i] = db(i) /\ ~isnan(start_time[i])

\* The track ran to exit(0) as m chunks below the ladder followed by one chunk
\* or more on or above its top.
RampTrack(m) ==
    /\ pc = "done"
    /\ m < Len(chunks)
    /\ \A n \in 1 .. Len(chunks) :
          IF n <= m THEN chunks[n][2] < db(0) ELSE chunks[n][2] >= db(points - 1)

\* C2 as claimed: for m chunks below -90 dB followed by chunks at or above
\* +6 dB, the first MIXRAMP_START time is m * k / r and the first MIXRAMP_END
\* time is T - m * k / r; a 1 s track with m = 0 prints one START row at 0.00
\* and one END row at 1.10, a 10 s track with m = 50 prints 5.00 and 5.10.
C2_ScenariosAsClaimed ==
    \A m \in 0 .. Len(chunks) :
        RampTrack(m) =>
            /\ stdout[2].rows[1][2] = FormatTime(10 * m * chunkSamples, sampleRate)
            /\ stdout[3].rows[1][2]
                 = FormatTime(length - 10 * m * chunkSamples, sampleRate)
            /\ (frameCount = sampleRate /\ m = 0) =>
                  /\ Len(stdout[2].rows) = 1 /\ stdout[2].rows[1][2] = 0
                  /\ Len(stdout[3].rows) = 1 /\ stdout[3].rows[1][2] = 110
            /\ (frameCount = 10 * sampleRate /\ m = 50) =>
                  /\ stdout[2].rows[1][2] = 500
                  /\ stdout[3].rows[1][2] = 510

\* C2 amended: for m chunks below -90 dB followed by N - m >= 1 chunks at or
\* above +6 dB, the first MIXRAMP_START time is m * k / r and the first
\* MIXRAMP_END time is T - (N - 1) * k / r, the time of the last chunk; a 1 s
\* track with m = 0 prints one START row at 0.00 and one END row at 0.20, a
\* 10 s track with m = 50 prints 5.00 first in START and 0.20 first in END.
C2_Scenarios ==
    \A m \in 0 .. Len(chunks) :
        RampTrack(m) =>
            /\ stdout[2].rows[1][2] = FormatTime(10 * m * chunkSamples, sampleRate)
            /\ stdout[3].rows[1][2]
                 = FormatTime(length - 10 * (Len(chunks) - 1) * chunkSamples,
                              sampleRate)
            /\ (frameCount = sampleRate /\ m = 0) =>
                  /\ Len(stdout[2].rows) = 1 /\ stdout[2].rows[1][2] = 0
                  /\ Len(stdout[3].rows) = 1 /\ stdout[3].rows[1][2] = 20
            /\ (frameCount = 10 * sampleRate /\ m = 50) =>
                  /\ stdout[2].rows[1][2] = 500
                  /\ stdout[3].rows[1][2] = 20

\* The 10 s track of 100 chunks, silent for its first 50, ran to exit(0).
C2_Witness ==
    /\ RampTrack(50)
    /\ frameCount = 10 * sampleRate
    /\ Len(chunks) = 100

\* C6: when no chunk was processed or every processed chunk was below -90 dB,
\* every row of both tables is unset, and a run that reaches exit(0) has
\* written MIXRAMP_REF=89.00, MIXRAMP_START= and MIXRAMP_END= with empty bodies.
C6_SilentInput ==
    Hits(0) = {} =>
        /\ \A i \in Idx : isnan(start_time[i]) /\ isnan(end_time[i])
        /\ pc = "done" =>
              stdout = <<REF_LINE,
                         [text |-> "MIXRAMP_START=", rows |-> <<>>],
                         [text |-> "MIXRAMP_END=", rows |-> <<>>]>>

\* A run reached exit(0) on a track shorter than one chunk, or on a track
\* whose two or more chunks were all below the ladder.
C6_Witness ==
    /\ pc = "done"
    /\ Hits(0) = {}
    /\ \/ frameCount > 0 /\ chunks = <<>>
       \/ Len(chunks) >= 2

\* C7: the first line written is MIXRAMP_REF=89.00, it is written before any
\* chunk is read, and a run that reaches exit(0) has written exactly three
\* lines: MIXRAMP_REF=89.00, MIXRAMP_START=<body>, MIXRAMP_END=<body>.
C7_OutputProtocol ==
    /\ Len(stdout) >= 1 => stdout[1] = REF_LINE
    /\ Len(stdout) >= 2 => stdout[2].text = "MIXRAMP_START="
    /\ Len(stdout) >= 3 => stdout[3].text = "MIXRAMP_END="
    /\ (framesLeft < frameCount \/ chunks # <<>>) => Len(stdout) >= 1
    /\ pc \in {"usage", "open", "metadata", "initgain", "alloc", "ref"} => stdout = <<>>
    /\ pc = "done" => Len(stdout) = 3

\* A run reached exit(0) after printing non-empty bodies.
C7_Witness ==
    /\ pc = "done"
    /\ chunks # <<>>
    /\ stdout[2].rows # <<>>
    /\ stdout[3].rows # <<>>

\* The last diagnostic written to standard error.
LastDiagnostic == stderr[Len(stderr)]

\* C8: the exit code is 0 only after the three output lines were written and
\* is 0 on success; it is 1 after the usage, channel-count, sample-rate and
\* loudness-engine diagnostics; after a failed open it is the error number.
C8_ExitCodes ==
    exitCode # NoExit =>
        /\ exitCode = 0 <=> Dumped
        /\ pc = "done" => exitCode = 0
        /\ (stderr # <<>> /\ LastDiagnostic # "perror") => exitCode = 1
        /\ (stderr # <<>> /\ LastDiagnostic = "perror") =>
              exitCode \in OpenErrnos \cup AllocErrnos

C9_FullChunksOnly ==
    /\ \A n \in 1 .. Len(chunks) : chunks[n][1] = 10 * (n - 1) * chunkSamples
    /\ \A a, b \in 1 .. Len(chunks) : a < b => chunks[a][1] < chunks[b][1]
    /\ pc \in {"loop", "dump", "exit", "done"} =>
          /\ Len(chunks) = chunkCount
          /\ chunkCount * chunkSamples <= frameCount
    /\ pc \in {"dump", "exit", "done"} => chunkCount = frameCount \div chunkSamples
    /\ pc = "done" => exitCode = 0 /\ Dumped

C9_ShortReadEndsLoop ==
    /\ (pc = "loop" /\ framesLeft < chunkSamples) =>
          /\ pc' = "dump"
          /\ UNCHANGED <<tables, chunks, chunkCount, stdout, stderr, exitCode>>
    /\ pc = "dump" => pc' = "exit" /\ Len(stdout') = 3 /\ UNCHANGED <<tables, stderr>>
    /\ pc = "exit" => pc' = "done" /\ exitCode' = 0 /\ UNCHANGED <<tables, stdout, stderr>>

\* C9: chunk j is processed at time j * k / r, in increasing time order; only
\* full chunks are processed; the first read that returns fewer than k frames
\* ends the loop with both tables unchanged and without a diagnostic, and the
\* run goes on to print its lines and exit with 0.
C9_PartialChunk == [] C9_FullChunksOnly /\ [][C9_ShortReadEndsLoop]_vars

\* A run reached exit(0) on a track of two full chunks or more and a trailing
\* partial chunk.
C9_Witness ==
    /\ pc = "done"
    /\ exitCode = 0
    /\ Len(chunks) >= 2
    /\ frameCount > Len(chunks) * chunkSamples

=============================================================================
